---- MODULE Spec2Model ----
(***************************************************************************)
(* A model of simple_model_counter.py: discovery of run_results files,     *)
(* count_models (the pass over one report's result list) and main (the     *)
(* sequential loop over the discovered files and the choice of rendering). *)
(*                                                                         *)
(* Representation.                                                         *)
(*   - A Python str is a sequence of one-character strings, so that        *)
(*     startswith, endswith, replace and the lexicographic order of        *)
(*     sorted() are computed and not assumed.                              *)
(*   - A parsed JSON value is [type, val] with type one of "dict", "list", *)
(*     "str", "num", "null"; a dict's val is a function whose DOMAIN is    *)
(*     the set of keys present, so dict.get(k, default) is a lookup with a *)
(*     fallback.                                                           *)
(*   - An execution time in a report is an integer number of 1/10000 s;   *)
(*     rounded to 3 decimals it is an integer number of 1/1000 s. A        *)
(*     success_rate, rounded to 2 decimals, is an integer number of        *)
(*     1/100 %.                                                            *)
(*   - An uncaught Python exception is an outcome of kind "raise".         *)
(***************************************************************************)
EXTENDS Integers, Sequences, FiniteSets, TLC

VARIABLES
    \* ---- count_models, one call, statement by statement ----
    cpc,                \* position in count_models
    content,            \* what open()/json.load() finds at file_path
    data,               \* the parsed document
    metadata,           \* data.get('metadata', {})
    results,            \* data.get('results', [])
    i,                  \* number of entries of results the for loop has taken
    total_models,
    successful_models,
    failed_models,
    execution_times,
    ret,                \* the outcome of the call
    \* ---- main ----
    pc,                 \* position in main
    path,               \* args.path
    ptype,              \* what args.path names: "file", "dir" or "none"
    tree,               \* the matching-relevant files below args.path
    json_flag,          \* args.json
    files,              \* find_run_results_files(args.path)
    idx,                \* number of files the for loop has taken
    all_stats,
    calls,              \* history: what each count_models call read and returned
    exit_code,          \* -1 while running
    output              \* what was rendered

cvars == <<cpc, content, data, metadata, results, i, total_models,
           successful_models, failed_models, execution_times, ret>>
mvars == <<pc, path, ptype, tree, json_flag, files, idx, all_stats, calls,
           exit_code, output>>
vars == <<cvars, mvars>>

(***************************************************************************)
(* Bounds of the model.                                                    *)
(***************************************************************************)
MaxLen == 3         \* longest results list

(***************************************************************************)
(* Python str.                                                             *)
(***************************************************************************)
\* The characters the model uses, in code point order.
AsciiOrder ==
    <<"+", "-", ".", "/", "0", "1", "2", "3", "4", "5", "6", "7", "8", "9",
      ":", "M", "T", "Z", "_", "a", "b", "c", "d", "e", "f", "g", "h", "i",
      "j", "k", "l", "m", "n", "o", "p", "q", "r", "s", "t", "u", "v", "w",
      "x", "y", "z">>

Code(c) == CHOOSE n \in 1..Len(AsciiOrder) : AsciiOrder[n] = c

Digits == {"0", "1", "2", "3", "4", "5", "6", "7", "8", "9"}

\* s.startswith(p)
StartsWith(s, p) == Len(s) >= Len(p) /\ SubSeq(s, 1, Len(p)) = p

\* s.endswith(p)
EndsWith(s, p) ==
    Len(s) >= Len(p) /\ SubSeq(s, Len(s) - Len(p) + 1, Len(s)) = p

\* s < t for two str: the first differing code point decides, a proper
\* prefix is smaller.
RECURSIVE StrLess(_, _)
StrLess(s, t) ==
    IF t = <<>> THEN FALSE
    ELSE IF s = <<>> THEN TRUE
    ELSE IF Head(s) = Head(t) THEN StrLess(Tail(s), Tail(t))
    ELSE Code(Head(s)) < Code(Head(t))

\* s.replace(c, w) for a one-character c
RECURSIVE Replace(_, _, _)
Replace(s, c, w) ==
    IF s = <<>> THEN <<>>
    ELSE (IF Head(s) = c THEN w ELSE <<Head(s)>>) \o Replace(Tail(s), c, w)

\* The literals of the source.
ModelPrefix == <<"m", "o", "d", "e", "l", ".">>
DotJson == <<".", "j", "s", "o", "n">>
Success == <<"s", "u", "c", "c", "e", "s", "s">>
Unknown == <<"u", "n", "k", "n", "o", "w", "n">>
RunResults == <<"r", "u", "n", "_", "r", "e", "s", "u", "l", "t", "s">>
RunResultsJson == RunResults \o DotJson
UtcOffset == <<"+", "0", "0", ":", "0", "0">>

(***************************************************************************)
(* Parsed JSON values.                                                     *)
(***************************************************************************)
JStr(s) == [type |-> "str", val |-> s]
JNum(n) == [type |-> "num", val |-> n]
JNull == [type |-> "null"]
JDict(f) == [type |-> "dict", val |-> f]
JList(q) == [type |-> "list", val |-> q]
EmptyDict == JDict(<<>>)

\* for x in v raises a TypeError for null and for a number; the model draws
\* no results that is a str or a dict
NotIterable(v) == v.type \in {"null", "num"}

\* d.get(k, default); only a dict has get
HasGet(d) == d.type = "dict"
Get(d, k, default) == IF k \in DOMAIN d.val THEN d.val[k] ELSE default

(***************************************************************************)
(* Rounding: round(a / b, ...) to the nearest integer of the unit, ties to *)
(* the even one, for a >= 0 and b > 0.                                     *)
(***************************************************************************)
RoundDiv(a, b) ==
    LET q == a \div b
        r == a % b
    IN  IF 2 * r < b THEN q
        ELSE IF 2 * r > b THEN q + 1
        ELSE IF q % 2 = 0 THEN q ELSE q + 1

RECURSIVE Sum(_)
Sum(q) == IF q = <<>> THEN 0 ELSE Head(q) + Sum(Tail(q))

\* a / b rounded to the unit: ZeroDivisionError for b = 0
ZeroDivision == [ok |-> FALSE]
Quotient(n) == [ok |-> TRUE, val |-> n]
Divide(a, b) == IF b = 0 THEN ZeroDivision ELSE Quotient(RoundDiv(a, b))

(***************************************************************************)
(* count_models.                                                           *)
(***************************************************************************)
None == [kind |-> "none"]
Raise(e) == [kind |-> "raise", exc |-> e]
Pending == [kind |-> "pending"]

\* What open() and json.load() make of the file (the try block and its two
\* except clauses): a parsed document, None after a reported error, or an
\* exception neither clause catches.
Load(c) ==
    CASE c.kind = "missing"      -> None                           \* FileNotFoundError
      [] c.kind = "invalid_json" -> None                           \* JSONDecodeError
      [] c.kind = "unreadable"   -> Raise("OSError")               \* a directory, no permission
      [] c.kind = "undecodable"  -> Raise("UnicodeDecodeError")    \* bytes that are no text
      [] c.kind = "parsed"       -> [kind |-> "data", doc |-> c.doc]

\* The counters before the loop.
InitCounters ==
    [total_models |-> 0, successful_models |-> 0, failed_models |-> 0,
     execution_times |-> <<>>, raised |-> ""]

\* IsModel with the prefix written without its dot.
IsModelNoDot(unique_id) == StartsWith(unique_id, SubSeq(ModelPrefix, 1, 5))

\* unique_id.startswith('model.')
IsModel(unique_id) == StartsWith(unique_id, ModelPrefix)

\* status == 'success'
IsSuccess(status) == status.type = "str" /\ status.val = Success

\* TimeCounts with >= for >.
TimeCountsNonNegative(execution_time) == execution_time >= 0

\* execution_time > 0 (for a number)
TimeCounts(execution_time) == execution_time > 0

\* Classify with a failure counted only for the status 'error'.
ClassifyErrorOnly(st, status) ==
    IF IsSuccess(status)
    THEN [st EXCEPT !.successful_models = @ + 1]
    ELSE IF status.type = "str" /\ status.val = <<"e", "r", "r", "o", "r">>
    THEN [st EXCEPT !.failed_models = @ + 1]
    ELSE st

\* The successful/failed branch of one iteration.
Classify(st, status) ==
    IF IsSuccess(status)
    THEN [st EXCEPT !.successful_models = @ + 1]
    ELSE [st EXCEPT !.failed_models = @ + 1]

\* One iteration of the for loop over results; raised names the exception
\* that leaves the loop, if any. The counters are those at that point.
LoopBody(st, result) ==
    IF ~HasGet(result) THEN [st EXCEPT !.raised = "AttributeError"]
    ELSE
    LET unique_id == Get(result, "unique_id", JStr(<<>>))
    IN  IF unique_id.type # "str" THEN [st EXCEPT !.raised = "AttributeError"]
        ELSE IF ~IsModel(unique_id.val) THEN st
        ELSE
        LET counted == Classify([st EXCEPT !.total_models = @ + 1],
                                Get(result, "status", JStr(Unknown)))
            execution_time == Get(result, "execution_time", JNum(0))
        IN  IF execution_time.type # "num"
            THEN [counted EXCEPT !.raised = "TypeError"]
            ELSE IF TimeCounts(execution_time.val)
            THEN [counted EXCEPT !.execution_times =
                                     Append(@, execution_time.val)]
            ELSE counted

\* SuccessRate without its guard.
SuccessRateUnguarded(successful, total) == Divide(successful * 10000, total)

\* (successful_models / total_models * 100) if total_models > 0 else 0,
\* rounded to 2 decimals: in 1/100 %.
SuccessRate(successful, total) ==
    IF total > 0 THEN Divide(successful * 10000, total) ELSE Quotient(0)

\* round(sum(execution_times) / len(execution_times), 3) if execution_times
\* else 0: in 1/1000 s.
AvgExecutionTime(times) ==
    IF times # <<>> THEN Divide(Sum(times), 10 * Len(times)) ELSE Quotient(0)

\* round(sum(execution_times), 3): in 1/1000 s.
TotalExecutionTime(times) == RoundDiv(Sum(times), 10)

\* Two decimal digits as a number.
TwoDigits(s, k) ==
    10 * (Code(s[k]) - Code("0")) + (Code(s[k + 1]) - Code("0"))

\* Whether datetime.fromisoformat accepts s, for the extended forms
\* YYYY-MM-DD and YYYY-MM-DD?HH:MM:SS, the latter with an optional
\* +HH:MM or -HH:MM offset; anything else is a ValueError.
IsIsoFormat(s) ==
    /\ Len(s) \in {10, 19, 25}
    /\ \A k \in {1, 2, 3, 4, 6, 7, 9, 10} : s[k] \in Digits
    /\ s[5] = "-" /\ s[8] = "-"
    /\ TwoDigits(s, 6) \in 1..12
    /\ TwoDigits(s, 9) \in 1..31
    /\ Len(s) >= 19 =>
         /\ \A k \in {12, 13, 15, 16, 18, 19} : s[k] \in Digits
         /\ s[14] = ":" /\ s[17] = ":"
         /\ TwoDigits(s, 12) \in 0..23
         /\ TwoDigits(s, 15) \in 0..59
         /\ TwoDigits(s, 18) \in 0..59
    /\ Len(s) = 25 =>
         /\ s[20] \in {"+", "-"}
         /\ \A k \in {21, 22, 24, 25} : s[k] \in Digits
         /\ s[23] = ":"
         /\ TwoDigits(s, 21) \in 0..23
         /\ TwoDigits(s, 24) \in 0..59

\* run_date from generated_at (a str): the calendar date of the parsed
\* timestamp, 'unknown' for the sentinel or on ValueError.
RunDate(generated_at) ==
    IF generated_at = Unknown THEN Unknown
    ELSE LET iso == Replace(generated_at, "Z", UtcOffset)
         IN  IF IsIsoFormat(iso) THEN SubSeq(iso, 1, 10) ELSE Unknown

\* The statements after the loop: the three statistics, the run date and
\* the returned dict.
Finish(file_path, st, md) ==
    LET success_rate == SuccessRate(st.successful_models, st.total_models)
        avg_execution_time == AvgExecutionTime(st.execution_times)
    IN
    IF ~success_rate.ok \/ ~avg_execution_time.ok
    THEN Raise("ZeroDivisionError")
    ELSE IF ~HasGet(md) THEN Raise("AttributeError")
    ELSE
    LET generated_at == Get(md, "generated_at", JStr(Unknown))
    IN  IF generated_at.type # "str" THEN Raise("AttributeError")
        ELSE
        [kind |-> "summary",
         stats |->
           [file_path |-> file_path,
            run_date |-> RunDate(generated_at.val),
            run_timestamp |-> generated_at,
            dbt_version |-> Get(md, "dbt_version", JStr(Unknown)),
            invocation_id |-> Get(md, "invocation_id", JStr(Unknown)),
            total_models |-> st.total_models,
            successful_models |-> st.successful_models,
            failed_models |-> st.failed_models,
            success_rate |-> success_rate.val,
            avg_execution_time |-> avg_execution_time.val,
            total_execution_time |-> TotalExecutionTime(st.execution_times)]]

\* The for loop from its start to its end or to the exception that leaves it.
RECURSIVE LoopAll(_, _)
LoopAll(st, q) ==
    IF st.raised # "" \/ q = <<>> THEN st
    ELSE LoopAll(LoopBody(st, Head(q)), Tail(q))

\* One whole call.
count_models(file_path, c) ==
    LET loaded == Load(c)
    IN  IF loaded.kind # "data" THEN loaded
        ELSE IF ~HasGet(loaded.doc) THEN Raise("AttributeError")
        ELSE
        LET md == Get(loaded.doc, "metadata", EmptyDict)
            rs == Get(loaded.doc, "results", JList(<<>>))
        IN  IF NotIterable(rs) THEN Raise("TypeError")
            ELSE LET st == LoopAll(InitCounters, rs.val)
                 IN  IF st.raised # "" THEN Raise(st.raised)
                     ELSE Finish(file_path, st, md)

(***************************************************************************)
(* The inputs the model draws from.                                        *)
(***************************************************************************)
Absent == [type |-> "absent"]       \* a key the dict does not hold

\* The dict with the keys of r whose value is not Absent.
MkDict(r) == JDict([k \in {x \in DOMAIN r : r[x].type # "absent"} |-> r[k]])

ResultRecord(unique_id, status, execution_time) ==
    MkDict([unique_id |-> unique_id, status |-> status,
            execution_time |-> execution_time])

ErrorStatus == JStr(<<"e", "r", "r", "o", "r">>)
IdModelA == JStr(ModelPrefix \o <<"a">>)                    \* 'model.a'
IdUpper == JStr(<<"M", "o", "d", "e", "l", ".", "a">>)      \* 'Model.a'
IdNoDot == JStr(<<"m", "o", "d", "e", "l">>)                \* 'model'
IdTest == JStr(<<"t", "e", "s", "t", ".", "a">>)            \* 'test.a'

\* Times in 1/10000 s: 1.0 s, 2.0 s and 1.2346 s.
OneSecond == JNum(10000)
TwoSeconds == JNum(20000)
OddTime == JNum(12346)

\* Entries of a results list: models with each status and time case, and
\* entries that are not models (or not even dicts), which would count and
\* add a time if they were taken for one.
ModelRecords ==
    {ResultRecord(IdModelA, JStr(Success), t) :
         t \in {Absent, JNum(0), OneSecond, TwoSeconds, OddTime, JNull}}
    \cup {ResultRecord(IdModelA, ErrorStatus, t) : t \in {JNum(0), OneSecond}}
    \cup {ResultRecord(IdModelA, Absent, Absent)}

OtherRecords ==
    {ResultRecord(u, JStr(Success), OneSecond) :
         u \in {Absent, IdUpper, IdNoDot, IdTest, JNull}}
    \cup {JNum(1)}

Records == ModelRecords \cup OtherRecords

\* All sequences over S of length at most n.
SeqsUpTo(S, n) == UNION {[1..k -> S] : k \in 0..n}

GeneratedZ ==       \* '2024-01-15T10:30:00Z'
    <<"2", "0", "2", "4", "-", "0", "1", "-", "1", "5", "T",
      "1", "0", ":", "3", "0", ":", "0", "0", "Z">>
GeneratedDay ==     \* '2025-02-01'
    <<"2", "0", "2", "5", "-", "0", "2", "-", "0", "1">>
GeneratedBad == <<"a", "b", "c">>

FullMetadata(generated_at) ==
    JDict([generated_at |-> JStr(generated_at),
           dbt_version |-> JStr(<<"1", ".", "7">>),
           invocation_id |-> JStr(<<"a", "b", "c">>)])

Metadatas ==
    {Absent, JNull, FullMetadata(GeneratedZ),
     JDict([generated_at |-> JStr(GeneratedBad)]),
     JDict([generated_at |-> JNum(5)])}

Document(md, rs) == MkDict([metadata |-> md, results |-> rs])

\* The parsed documents: every results list up to MaxLen with the metadata
\* absent or complete, every metadata with a results list of at most one
\* entry or none, and a document that is no object.
Documents ==
    {Document(md, JList(q)) :
         md \in {Absent, FullMetadata(GeneratedZ)}, q \in SeqsUpTo(Records, MaxLen)}
    \cup {Document(md, rs) :
         md \in Metadatas,
         rs \in {Absent, JNull} \cup {JList(q) : q \in SeqsUpTo(Records, 1)}}
    \cup {JList(<<>>)}

Parsed(doc) == [kind |-> "parsed", doc |-> doc]

\* What a read can find that is no document.
Unparsed ==
    {[kind |-> "missing"], [kind |-> "invalid_json"],
     [kind |-> "unreadable"], [kind |-> "undecodable"]}

FilePath == RunResultsJson

(***************************************************************************)
(* SpecCount: one call of count_models, statement by statement.            *)
(***************************************************************************)
MainIdle ==
    /\ pc = "idle" /\ path = <<>> /\ ptype = "none" /\ tree = {}
    /\ json_flag = FALSE /\ files = <<>> /\ idx = 0 /\ all_stats = <<>>
    /\ calls = <<>> /\ exit_code = -1 /\ output = [mode |-> "none"]

CountStart ==
    /\ cpc = "open" /\ data = JNull /\ metadata = JNull /\ results = JNull
    /\ i = 0 /\ total_models = 0 /\ successful_models = 0
    /\ failed_models = 0 /\ execution_times = <<>> /\ ret = Pending

InitCount ==
    /\ content \in Unparsed \cup {Parsed(d) : d \in Documents}
    /\ CountStart
    /\ MainIdle

Counters ==
    [total_models |-> total_models, successful_models |-> successful_models,
     failed_models |-> failed_models, execution_times |-> execution_times,
     raised |-> ""]

\* with open(...) / json.load / the two except clauses
c_open ==
    /\ cpc = "open"
    /\ LET loaded == Load(content)
       IN  IF loaded.kind = "data"
           THEN /\ data' = loaded.doc
                /\ cpc' = "extract"
                /\ ret' = ret
           ELSE /\ ret' = loaded
                /\ cpc' = IF loaded.kind = "none" THEN "returned" ELSE "raised"
                /\ data' = data
    /\ UNCHANGED <<content, metadata, results, i, total_models,
                   successful_models, failed_models, execution_times>>
    /\ UNCHANGED mvars

\* metadata = data.get(...); results = data.get(...); the counters set to 0
c_extract ==
    /\ cpc = "extract"
    /\ IF HasGet(data)
       THEN /\ metadata' = Get(data, "metadata", EmptyDict)
            /\ results' = Get(data, "results", JList(<<>>))
            /\ cpc' = "loop"
            /\ ret' = ret
       ELSE /\ ret' = Raise("AttributeError")
            /\ cpc' = "raised"
            /\ UNCHANGED <<metadata, results>>
    /\ total_models' = InitCounters.total_models
    /\ successful_models' = InitCounters.successful_models
    /\ failed_models' = InitCounters.failed_models
    /\ execution_times' = InitCounters.execution_times
    /\ UNCHANGED <<content, data, i>>
    /\ UNCHANGED mvars

\* for result in results: on something that cannot be iterated
c_not_iterable ==
    /\ cpc = "loop"
    /\ NotIterable(results)
    /\ ret' = Raise("TypeError")
    /\ cpc' = "raised"
    /\ UNCHANGED <<content, data, metadata, results, i, total_models,
                   successful_models, failed_models, execution_times>>
    /\ UNCHANGED mvars

\* one iteration of the loop
c_iterate ==
    /\ cpc = "loop"
    /\ results.type = "list"
    /\ i < Len(results.val)
    /\ LET st == LoopBody(Counters, results.val[i + 1])
       IN  /\ total_models' = st.total_models
           /\ successful_models' = st.successful_models
           /\ failed_models' = st.failed_models
           /\ execution_times' = st.execution_times
           /\ IF st.raised # ""
              THEN ret' = Raise(st.raised) /\ cpc' = "raised"
              ELSE ret' = ret /\ cpc' = cpc
    /\ i' = i + 1
    /\ UNCHANGED <<content, data, metadata, results>>
    /\ UNCHANGED mvars

\* the loop is over: the statistics, the run date, return
c_finish ==
    /\ cpc = "loop"
    /\ results.type = "list"
    /\ i = Len(results.val)
    /\ ret' = Finish(FilePath, Counters, metadata)
    /\ cpc' = IF ret'.kind = "summary" THEN "returned" ELSE "raised"
    /\ UNCHANGED <<content, data, metadata, results, i, total_models,
                   successful_models, failed_models, execution_times>>
    /\ UNCHANGED mvars

NextCount == c_open \/ c_extract \/ c_not_iterable \/ c_iterate \/ c_finish

SpecCount == InitCount /\ [][NextCount]_vars

\* The statement-by-statement call ends as the whole call does.
StepsAgree ==
    cpc \in {"returned", "raised"} => ret = count_models(FilePath, content)

(***************************************************************************)
(* find_run_results_files.                                                 *)
(***************************************************************************)
Range(q) == {q[k] : k \in DOMAIN q}

\* list(S) for a Python set S: its elements once each, in some order.
ListOf(S) == CHOOSE q \in [1..Cardinality(S) -> S] : Range(q) = S

\* Every order in which a directory listing can give the elements of S.
Listings(S) == {q \in [1..Cardinality(S) -> S] : Range(q) = S}

\* sorted(q) for a list of str: insertion after the elements that are not
\* greater (stable).
RECURSIVE Insert(_, _)
Insert(q, x) ==
    IF q = <<>> THEN <<x>>
    ELSE IF StrLess(x, Head(q)) THEN <<x>> \o q
    ELSE <<Head(q)>> \o Insert(Tail(q), x)

RECURSIVE PySorted(_)
PySorted(q) ==
    IF q = <<>> THEN <<>>
    ELSE Insert(PySorted(SubSeq(q, 1, Len(q) - 1)), q[Len(q)])

\* os.path.join(path, rel) for a path that does not end in a separator and
\* the components rel of a relative path
RECURSIVE JoinPath(_, _)
JoinPath(p, rel) ==
    IF rel = <<>> THEN p ELSE JoinPath(p \o <<"/">> \o Head(rel), Tail(rel))

\* fnmatch of a file name against 'run_results*.json'
MatchesStar(name) ==
    /\ Len(name) >= Len(RunResults) + Len(DotJson)
    /\ StartsWith(name, RunResults)
    /\ EndsWith(name, DotJson)

\* The three patterns over the files below the directory, each file given
\* by the components of its path relative to the directory.
Pattern1(t) == {f \in t : f = <<RunResultsJson>>}
Pattern2(t) == {f \in t : f[Len(f)] = RunResultsJson}
Pattern3(t) == {f \in t : Len(f) = 1 /\ MatchesStar(f[1])}

\* Dedup without the set.
DedupNone(found) == found

\* list(set(files))
Dedup(found) == ListOf(Range(found))

\* The directory branch: found is the list files after the three extends.
FromDirectory(found) == PySorted(Dedup(found))

\* The file branch.
FromFile(p) == IF EndsWith(p, DotJson) THEN <<p>> ELSE <<>>

\* find_run_results_files(p), where g1, g2, g3 are what the three glob
\* calls return.
find_run_results_files(p, kind, g1, g2, g3) ==
    IF kind = "file" THEN FromFile(p)
    ELSE IF kind = "dir" THEN FromDirectory(g1 \o g2 \o g3)
    ELSE <<>>

\* What glob.glob returns for a pattern: the full paths of its matches in
\* the order of the directory listing.
Globs(p, matches) ==
    {[k \in DOMAIN q |-> JoinPath(p, q[k])] : q \in Listings(matches)}

(***************************************************************************)
(* The presentation.                                                       *)
(***************************************************************************)
NameWidth == 28

\* os.path.basename(p)
RECURSIVE Basename(_)
Basename(p) ==
    IF \A k \in DOMAIN p : p[k] # "/" THEN p
    ELSE Basename(Tail(p))

\* sorted(all_stats, key=run_date, reverse=True): the greatest date first,
\* equal dates in their order in all_stats.
RECURSIVE InsertByDate(_, _)
InsertByDate(q, x) ==
    IF q = <<>> THEN <<x>>
    ELSE IF StrLess(Head(q).run_date, x.run_date) THEN <<x>> \o q
    ELSE <<Head(q)>> \o InsertByDate(Tail(q), x)

RECURSIVE SortedByDateDesc(_)
SortedByDateDesc(q) ==
    IF q = <<>> THEN <<>>
    ELSE InsertByDate(SortedByDateDesc(SubSeq(q, 1, Len(q) - 1)), q[Len(q)])

\* One line of the table: the name cut to 28 characters, the rate to one
\* decimal (in 1/10 %), the time to two decimals (in 1/100 s).
SummaryRow(stats) ==
    LET name == Basename(stats.file_path)
    IN  [file_name |-> SubSeq(name, 1, IF Len(name) < NameWidth
                                      THEN Len(name) ELSE NameWidth),
         run_date |-> stats.run_date,
         models |-> stats.total_models,
         success_rate |-> RoundDiv(stats.success_rate, 10),
         exec_time |-> RoundDiv(stats.total_execution_time, 10)]

RECURSIVE SumField(_, _)
SumField(q, f) == IF q = <<>> THEN 0 ELSE Head(q)[f] + SumField(Tail(q), f)

\* print_summary_results(all_stats)
print_summary_results(stats_list) ==
    IF stats_list = <<>> THEN [mode |-> "no_results"]
    ELSE
    LET tm == SumField(stats_list, "total_models")
        ts == SumField(stats_list, "successful_models")
        tt == SumField(stats_list, "total_execution_time")
        overall == IF tm > 0 THEN RoundDiv(ts * 1000, tm) ELSE 0
    IN  [mode |-> "summary",
         rows |-> [k \in 1..Len(stats_list) |->
                      SummaryRow(SortedByDateDesc(stats_list)[k])],
         total_models |-> tm,
         overall_success_rate |-> overall,
         total_time |-> RoundDiv(tt, 10),
         runs |-> Len(stats_list),
         models_per_run |-> RoundDiv(tm * 10, Len(stats_list))]

\* The detailed view of one summary; the performance block is printed only
\* for a positive total time.
SingleView(stats) ==
    [mode |-> "single", body |-> stats,
     performance |-> stats.total_execution_time > 0]

\* Render with the structured output in the order of the table.
RenderJsonSorted(as_json, stats_list) ==
    IF as_json THEN [mode |-> "json", body |-> SortedByDateDesc(stats_list)]
    ELSE IF Len(stats_list) = 1 THEN SingleView(stats_list[1])
    ELSE print_summary_results(stats_list)

\* Render with the count of summaries looked at before the flag.
RenderSingleFirst(as_json, stats_list) ==
    IF Len(stats_list) = 1 THEN SingleView(stats_list[1])
    ELSE IF as_json THEN [mode |-> "json", body |-> stats_list]
    ELSE print_summary_results(stats_list)

\* The branch of main that prints.
Render(as_json, stats_list) ==
    IF as_json THEN [mode |-> "json", body |-> stats_list]
    ELSE IF Len(stats_list) = 1 THEN SingleView(stats_list[1])
    ELSE print_summary_results(stats_list)

\* if stats: a returned dict is truthy unless empty, None is not
Truthy(r) == r.kind = "summary" /\ DOMAIN r.stats # {}

(***************************************************************************)
(* Spec: main.                                                             *)
(***************************************************************************)
DirName == <<"d">>
TextName == RunResults \o <<".", "t", "x", "t">>
RunResultsOld == RunResults \o <<"_", "o", "l", "d">> \o DotJson
SubDir == <<"s", "u", "b">>
ADir == <<"a">>

\* The files that may lie below the directory: four that a pattern
\* matches, two that none does.
TreeFiles ==
    {<<RunResultsJson>>, <<RunResultsOld>>, <<SubDir, RunResultsJson>>,
     <<ADir, RunResultsJson>>, <<SubDir, RunResultsOld>>, <<TextName>>}

ModelSuccess(t) == ResultRecord(IdModelA, JStr(Success), t)
ModelError(t) == ResultRecord(IdModelA, ErrorStatus, t)

\* The documents main's files hold: an empty object, the run of three
\* models, a run of another day with one failed model, and a document that
\* is no object.
MainDocuments ==
    {Document(Absent, Absent),
     Document(FullMetadata(GeneratedZ),
              JList(<<ModelSuccess(OneSecond), ModelSuccess(TwoSeconds),
                      ModelError(JNum(0))>>)),
     Document(FullMetadata(GeneratedDay), JList(<<ModelError(OneSecond)>>)),
     JList(<<>>)}

MainContents == Unparsed \cup {Parsed(d) : d \in MainDocuments}

CountIdle ==
    /\ content = [kind |-> "missing"] /\ CountStart

Init ==
    /\ pc = "find"
    /\ \/ ptype = "dir" /\ path = DirName /\ tree \in SUBSET TreeFiles
       \/ ptype = "file" /\ path \in {RunResultsJson, TextName} /\ tree = {}
       \/ ptype = "none" /\ path = RunResultsJson /\ tree = {}
    /\ json_flag \in BOOLEAN
    /\ files = <<>> /\ idx = 0 /\ all_stats = <<>> /\ calls = <<>>
    /\ exit_code = -1 /\ output = [mode |-> "none"]
    /\ CountIdle

\* files = find_run_results_files(args.path); if not files: sys.exit(1)
m_find ==
    /\ pc = "find"
    /\ \E g1 \in Globs(path, Pattern1(tree)),
          g2 \in Globs(path, Pattern2(tree)),
          g3 \in Globs(path, Pattern3(tree)) :
           files' = find_run_results_files(path, ptype, g1, g2, g3)
    /\ IF files' = <<>>
       THEN pc' = "exit" /\ exit_code' = 1
       ELSE pc' = "loop" /\ exit_code' = exit_code
    /\ UNCHANGED <<path, ptype, tree, json_flag, idx, all_stats, calls, output>>
    /\ UNCHANGED cvars

\* one iteration of for file_path in files
m_process ==
    /\ pc = "loop"
    /\ idx < Len(files)
    /\ \E c \in MainContents :
         LET stats == count_models(files[idx + 1], c)
         IN  /\ calls' = Append(calls, [file_path |-> files[idx + 1],
                                        content |-> c, result |-> stats])
             /\ IF stats.kind = "raise"
                THEN /\ pc' = "crashed" /\ exit_code' = 1
                     /\ all_stats' = all_stats
                ELSE /\ pc' = pc /\ exit_code' = exit_code
                     /\ all_stats' = IF Truthy(stats)
                                     THEN Append(all_stats, stats.stats)
                                     ELSE all_stats
    /\ idx' = idx + 1
    /\ UNCHANGED <<path, ptype, tree, json_flag, files, output>>
    /\ UNCHANGED cvars

\* if not all_stats: sys.exit(1)
m_no_stats ==
    /\ pc = "loop"
    /\ idx = Len(files)
    /\ all_stats = <<>>
    /\ pc' = "exit" /\ exit_code' = 1
    /\ UNCHANGED <<path, ptype, tree, json_flag, files, idx, all_stats,
                   calls, output>>
    /\ UNCHANGED cvars

\* the output, and the end of main
m_render ==
    /\ pc = "loop"
    /\ idx = Len(files)
    /\ all_stats # <<>>
    /\ output' = Render(json_flag, all_stats)
    /\ pc' = "done" /\ exit_code' = 0
    /\ UNCHANGED <<path, ptype, tree, json_flag, files, idx, all_stats, calls>>
    /\ UNCHANGED cvars

Next == m_find \/ m_process \/ m_no_stats \/ m_render

Spec == Init /\ [][Next]_vars

(***************************************************************************)
(* Properties of count_models, checked under SpecCount.                    *)
(***************************************************************************)
\* The entries the loop has taken so far.
Taken == SubSeq(results.val, 1, i)

\* The loop is running or the call has returned a summary: every entry
\* taken was a dict that raised nothing.
Counting ==
    \/ cpc = "loop" /\ results.type = "list"
    \/ cpc = "returned" /\ ret.kind = "summary"

\* A taken entry whose identifier is 'model.' followed by anything.
HasModelPrefix(r) ==
    /\ "unique_id" \in DOMAIN r.val
    /\ LET u == r.val.unique_id.val
       IN  /\ Len(u) >= 6
           /\ u[1] = "m" /\ u[2] = "o" /\ u[3] = "d"
           /\ u[4] = "e" /\ u[5] = "l" /\ u[6] = "."

HasSuccessStatus(r) ==
    /\ "status" \in DOMAIN r.val
    /\ r.val.status.type = "str"
    /\ r.val.status.val = <<"s", "u", "c", "c", "e", "s", "s">>

\* The time of a taken model entry, 0 when it holds none.
TimeOf(r) ==
    IF "execution_time" \in DOMAIN r.val THEN r.val.execution_time.val ELSE 0

ModelsIn(q) == {k \in DOMAIN q : HasModelPrefix(q[k])}

\* The positive times of the model entries of q, in order.
RECURSIVE TimingSample(_)
TimingSample(q) ==
    IF q = <<>> THEN <<>>
    ELSE LET r == q[Len(q)]
             before == TimingSample(SubSeq(q, 1, Len(q) - 1))
         IN  IF HasModelPrefix(r) /\ TimeOf(r) > 0
             THEN Append(before, TimeOf(r))
             ELSE before

\* C1: total_models = successful_models + failed_models before the loop,
\* after every iteration (also one that an exception leaves) and in the
\* returned summary.
C1_TotalIsSum ==
    /\ total_models = successful_models + failed_models
    /\ ret.kind = "summary" =>
         ret.stats.total_models =
             ret.stats.successful_models + ret.stats.failed_models

\* A returned summary of three entries: a model without a status, a
\* successful model and an entry that is no model.
C1_Witness ==
    /\ cpc = "returned" /\ ret.kind = "summary"
    /\ Len(results.val) = 3
    /\ ret.stats.total_models = 2
    /\ ret.stats.successful_models = 1
    /\ ret.stats.failed_models = 1
    /\ \E k \in 1..3 : results.val[k] = ResultRecord(IdModelA, Absent, Absent)

\* C4: after every iteration and in the returned summary, total_models is
\* the number of entries taken whose unique_id starts with 'model.',
\* successful_models the number of those whose status is exactly 'success',
\* failed_models the number of the other ones; an entry without the prefix
\* or without a unique_id counts nowhere.
C4_CountsByPrefixAndStatus ==
    Counting =>
        LET models == ModelsIn(Taken)
            good == {k \in models : HasSuccessStatus(Taken[k])}
        IN  /\ total_models = Cardinality(models)
            /\ successful_models = Cardinality(good)
            /\ failed_models = Cardinality(models \ good)
            /\ ret.kind = "summary" =>
                 /\ ret.stats.total_models = Cardinality(models)
                 /\ ret.stats.successful_models = Cardinality(good)
                 /\ ret.stats.failed_models = Cardinality(models \ good)

\* A returned summary over 'model' (no dot), 'Model.a' and a model without
\* a status: one model, failed.
C4_Witness ==
    /\ cpc = "returned" /\ ret.kind = "summary"
    /\ Len(results.val) = 3
    /\ \E k \in 1..3 : results.val[k] = ResultRecord(IdNoDot, JStr(Success), OneSecond)
    /\ \E k \in 1..3 : results.val[k] = ResultRecord(IdUpper, JStr(Success), OneSecond)
    /\ \E k \in 1..3 : results.val[k] = ResultRecord(IdModelA, Absent, Absent)
    /\ ret.stats.total_models = 1
    /\ ret.stats.successful_models = 0
    /\ ret.stats.failed_models = 1

\* C5: a returned success_rate lies in [0, 100] (in 1/100 %: 0..10000), it
\* is 0 when total_models is 0, and no call ends in a ZeroDivisionError.
C5_SuccessRateRange ==
    /\ ret.kind = "raise" => ret.exc # "ZeroDivisionError"
    /\ ret.kind = "summary" =>
         /\ ret.stats.success_rate \in 0..10000
         /\ ret.stats.total_models = 0 => ret.stats.success_rate = 0

\* A summary of a results list that holds entries but no model.
C5_Witness ==
    /\ cpc = "returned" /\ ret.kind = "summary"
    /\ Len(results.val) >= 2
    /\ ret.stats.total_models = 0
    /\ ret.stats.success_rate = 0

\* C7: once the file has parsed, count_models returns a summary: no
\* exception leaves it.
C7_ParsedNeverRaises ==
    content.kind = "parsed" => cpc # "raised"

\* C9: the timing sample is the positive times of the model entries taken,
\* so a model entry with the time 0 or none is counted in total_models and
\* adds nothing to the sample; the returned total is the rounded sum of the
\* sample, the returned average the rounded sum over the size of the
\* sample, and both are 0 for an empty sample.
C9_ZeroTimesNotSampled ==
    Counting =>
        LET sample == TimingSample(Taken)
        IN  /\ execution_times = sample
            /\ total_models = Cardinality(ModelsIn(Taken))
            /\ ret.kind = "summary" =>
                 /\ ret.stats.total_execution_time = RoundDiv(Sum(sample), 10)
                 /\ sample # <<>> =>
                      ret.stats.avg_execution_time =
                          RoundDiv(Sum(sample), 10 * Len(sample))
                 /\ sample = <<>> =>
                      /\ ret.stats.avg_execution_time = 0
                      /\ ret.stats.total_execution_time = 0

\* Three models, with the times 0, none and 1.0 s: three counted, one time
\* in the sample, the average and the total 1.0 s.
C9_Witness ==
    /\ cpc = "returned" /\ ret.kind = "summary"
    /\ Len(results.val) = 3
    /\ \E k \in 1..3 : results.val[k] = ResultRecord(IdModelA, ErrorStatus, JNum(0))
    /\ \E k \in 1..3 : results.val[k] = ResultRecord(IdModelA, JStr(Success), Absent)
    /\ \E k \in 1..3 : results.val[k] = ResultRecord(IdModelA, JStr(Success), OneSecond)
    /\ ret.stats.total_models = 3
    /\ execution_times = <<10000>>
    /\ ret.stats.avg_execution_time = 1000
    /\ ret.stats.total_execution_time = 1000

\* The run of the three models of 1.0 s, 2.0 s and 0 s, two of them
\* successful: 66.67 %, 1.5 s on average, 3.0 s in total.
ExampleRun ==
    /\ cpc = "returned" /\ ret.kind = "summary"
    /\ results.val = <<ResultRecord(IdModelA, JStr(Success), OneSecond),
                       ResultRecord(IdModelA, JStr(Success), TwoSeconds),
                       ResultRecord(IdModelA, ErrorStatus, JNum(0))>>
    => /\ ret.stats.total_models = 3
       /\ ret.stats.successful_models = 2
       /\ ret.stats.failed_models = 1
       /\ ret.stats.success_rate = 6667
       /\ ret.stats.avg_execution_time = 1500
       /\ ret.stats.total_execution_time = 3000

(***************************************************************************)
(* Properties of discovery and of main, checked under Spec.                *)
(***************************************************************************)
Terminated == pc \in {"exit", "done", "crashed"}

IsSummaryCall(c) == c.result.kind = "summary"

\* The keys of a summary.
SummaryFields ==
    {"file_path", "run_date", "run_timestamp", "dbt_version", "invocation_id",
     "total_models", "successful_models", "failed_models", "success_rate",
     "avg_execution_time", "total_execution_time"}

\* The files of TreeFiles that one of the three patterns names.
MatchedFiles ==
    {<<RunResultsJson>>, <<RunResultsOld>>, <<SubDir, RunResultsJson>>,
     <<ADir, RunResultsJson>>}

\* A file that is missing, a file whose content is malformed (no JSON, or
\* bytes that are no text), or a report: a JSON object, whose fields in
\* MainDocuments have the documented types.
MissingMalformedOrReport(c) ==
    \/ c.kind \in {"missing", "invalid_json", "undecodable"}
    \/ c.kind = "parsed" /\ c.doc.type = "dict"

\* C2: when main ends on files each of which is missing, malformed or a
\* report, count_models was called on every discovered file in order, none
\* of the calls raised, a file that was missing or malformed gave None, and
\* all_stats holds the summaries of the other files in order.
C2_FailuresIsolated ==
    /\ Terminated /\ files # <<>>
    /\ \A k \in DOMAIN calls : MissingMalformedOrReport(calls[k].content)
    =>  /\ pc # "crashed"
        /\ Len(calls) = Len(files)
        /\ \A k \in DOMAIN calls :
             /\ calls[k].file_path = files[k]
             /\ calls[k].content.kind \in {"missing", "invalid_json", "undecodable"}
                  => calls[k].result = None
        /\ Len(all_stats) = Len(SelectSeq(calls, IsSummaryCall))
        /\ \A k \in DOMAIN all_stats :
             all_stats[k] = SelectSeq(calls, IsSummaryCall)[k].result.stats

\* C3: the exit status is not zero exactly when no file was discovered or
\* no file was summarized; a run that exits zero has printed a report, one
\* that does not has printed none.
C3_ExitStatus ==
    exit_code # -1 =>
        /\ exit_code # 0 <=> (files = <<>> \/ all_stats = <<>>)
        /\ exit_code = 0 => output.mode \in {"json", "single", "summary"}
        /\ exit_code # 0 => output.mode = "none"

C8_SortedUnion ==
    pc # "find" /\ ptype = "dir" =>
        /\ Range(files) = {JoinPath(path, f) : f \in tree \cap MatchedFiles}
        /\ Len(files) = Cardinality(tree \cap MatchedFiles)
        /\ \A j, k \in DOMAIN files : j < k => StrLess(files[j], files[k])

\* The directory that holds run_results.json and run_results_old.json.
C8_Witness ==
    /\ pc # "find" /\ ptype = "dir"
    /\ tree = {<<RunResultsJson>>, <<RunResultsOld>>}
    /\ files = <<JoinPath(DirName, <<RunResultsJson>>),
                 JoinPath(DirName, <<RunResultsOld>>)>>

\* C10: a run that reaches the output prints exactly one rendering: the
\* structured one with --json; without it the detailed view if and only if
\* there is one summary and the table if and only if there are several. A
\* run that does not reach the output prints none.
C10_OneRendering ==
    /\ pc = "done" =>
         /\ output.mode \in {"json", "single", "summary"}
         /\ json_flag => output.mode = "json"
         /\ ~json_flag =>
              /\ output.mode = "single" <=> Len(all_stats) = 1
              /\ output.mode = "summary" <=> Len(all_stats) > 1
    /\ pc # "done" => output.mode = "none"

\* Two files discovered, one summary: the detailed view.
C10_Witness ==
    /\ pc = "done" /\ ~json_flag
    /\ Len(files) = 2
    /\ Len(all_stats) = 1
    /\ output.mode = "single"

====
